---------------------------- MODULE Spec2Model ----------------------------
(***************************************************************************)
(* cargo-rootfs (src/src/main.rs): installation of build artifacts and of  *)
(* the files named by [[package.metadata.rootfs]] rules into a staged      *)
(* root filesystem.                                                        *)
(*                                                                         *)
(* The filesystem is a function from canonical paths (sequences of names)  *)
(* to nodes.  A name is a sequence of one-character strings, so that       *)
(* starts_with("."), format!("S{order}{name}") and the parsing of path and *)
(* permission strings are computed as the code computes them.  The system  *)
(* calls behind std::fs follow POSIX/Linux: symbolic links are followed by *)
(* stat, open, chmod and mkdir -p's is_dir, and are not followed by unlink *)
(* and symlink on the last component.  The process is taken to run with    *)
(* the privileges of a rootfs build (no EACCES).                           *)
(***************************************************************************)
EXTENDS Integers, Sequences, FiniteSets, TLC

VARIABLES
    args,       \* CargoRootfsArgs after parse()
    metadata,   \* cargo_metadata::Metadata (packages, resolve, target dir)
    fs,         \* the filesystem
    todo,       \* the calls still to run, innermost first (the call stack)
    status,     \* "running", "done" (main returned) or "panic"
    panicAt,    \* which failure ended the run ("" while none)
    runs,       \* how many times the program has been started
    hist        \* observations for the properties (never read by the program)

vars == <<args, metadata, fs, todo, status, panicAt, runs, hist>>

----------------------------------------------------------------------------
(* Strings and paths                                                       *)

\* "abc" as the sequence of its characters is written <<"a","b","c">>.
RECURSIVE SplitSlash(_, _, _)
\* The components of a path string: split at "/", empty components and
\* interior/trailing "." dropped (std::path::Components' normalisation).
SplitSlash(s, cur, acc) ==
    IF s = <<>>
    THEN IF cur = <<>> \/ (cur = <<".">> /\ acc # <<>>) THEN acc ELSE Append(acc, cur)
    ELSE IF Head(s) = "/"
         THEN SplitSlash(Tail(s), <<>>,
                  IF cur = <<>> \/ (cur = <<".">> /\ acc # <<>>) THEN acc ELSE Append(acc, cur))
         ELSE SplitSlash(Tail(s), Append(cur, Head(s)), acc)

\* PathBuf::from(string): absolute iff the string starts with "/".
PathFromStr(s) ==
    [abs |-> (s # <<>> /\ Head(s) = "/"), comps |-> SplitSlash(s, <<>>, <<>>)]

DotDot == <<".", ".">>
Dot == <<".">>

\* Path::join: an absolute argument replaces the base.
join(a, b) == IF b.abs THEN b ELSE [abs |-> a.abs, comps |-> a.comps \o b.comps]

join_name(a, name) == [abs |-> a.abs, comps |-> Append(a.comps, name)]

\* Path::strip_prefix("/").unwrap_or(path)
strip_prefix_root(p) == IF p.abs THEN [abs |-> FALSE, comps |-> p.comps] ELSE p

has_parent(p) == p.comps # <<>>

\* Path::parent: the path without its last component.
parent(p) == [abs |-> p.abs, comps |-> SubSeq(p.comps, 1, Len(p.comps) - 1)]

\* Path::file_name: the last component when it is a normal one.
has_file_name(p) ==
    /\ p.comps # <<>>
    /\ p.comps[Len(p.comps)] # DotDot
    /\ p.comps[Len(p.comps)] # Dot

file_name(p) == p.comps[Len(p.comps)]

\* A test that takes only the name "." for hidden.
starts_with_dot_alone(name) == name = <<".">>

\* str::starts_with(".")
starts_with_dot(name) == name # <<>> /\ Head(name) = "."

DigitChar(d) ==
    CASE d = 0 -> "0" [] d = 1 -> "1" [] d = 2 -> "2" [] d = 3 -> "3" [] d = 4 -> "4"
      [] d = 5 -> "5" [] d = 6 -> "6" [] d = 7 -> "7" [] d = 8 -> "8" [] OTHER -> "9"

RECURSIVE Dec(_)
\* format!("{n}") of an unsigned integer.
Dec(n) == IF n < 10 THEN <<DigitChar(n)>> ELSE Append(Dec(n \div 10), DigitChar(n % 10))

----------------------------------------------------------------------------
(* The filesystem                                                          *)

NoNode == [kind |-> "none", mode |-> 0, data |-> "", sym |-> FALSE,
           text |-> [abs |-> FALSE, comps |-> <<>>]]

DirNode(m) == [NoNode EXCEPT !.kind = "dir", !.mode = m]

FileNode(m, d, s) == [NoNode EXCEPT !.kind = "file", !.mode = m, !.data = d, !.sym = s]

LinkNode(t) == [NoNode EXCEPT !.kind = "link", !.mode = 511, !.text = t]

Lookup(f, p) == IF p \in DOMAIN f THEN f[p] ELSE NoNode

Put(f, p, node) == [q \in (DOMAIN f) \cup {p} |-> IF q = p THEN node ELSE f[q]]

Del(f, p) == [q \in (DOMAIN f) \ {p} |-> f[q]]

\* Linux follows at most 40 symbolic links in one path resolution (ELOOP).
MAXSYMLINKS == 40

RECURSIVE Walk(_, _, _, _, _)
\* Path resolution from directory cur along the components rest.  The
\* answer is "found" (p is the node reached), "missing" (every component
\* but the last exists: p is where the last one would be created) or an
\* error: "ENOENT", "ENOTDIR", "ELOOP".
Walk(f, cur, rest, followLast, n) ==
    IF rest = <<>> THEN [st |-> "found", p |-> cur]
    ELSE LET c == Head(rest)
             t == Tail(rest)
             next == Append(cur, c)
             node == Lookup(f, next)
         IN IF c = Dot THEN Walk(f, cur, t, followLast, n)
            ELSE IF c = DotDot
            THEN Walk(f, IF cur = <<>> THEN cur ELSE SubSeq(cur, 1, Len(cur) - 1),
                      t, followLast, n)
            ELSE IF node.kind = "none"
            THEN IF t = <<>> THEN [st |-> "missing", p |-> next]
                 ELSE [st |-> "ENOENT", p |-> next]
            ELSE IF node.kind = "link"
            THEN IF t = <<>> /\ ~followLast THEN [st |-> "found", p |-> next]
                 ELSE IF n >= MAXSYMLINKS THEN [st |-> "ELOOP", p |-> next]
                 ELSE IF node.text.comps = <<>> /\ ~node.text.abs
                 THEN [st |-> "ENOENT", p |-> next]
                 ELSE Walk(f, IF node.text.abs THEN <<>> ELSE cur,
                           node.text.comps \o t, followLast, n + 1)
            ELSE IF node.kind = "dir" THEN Walk(f, next, t, followLast, n)
            ELSE IF t = <<>> THEN [st |-> "found", p |-> next]
            ELSE [st |-> "ENOTDIR", p |-> next]

\* Every path handed to a system call is absolute (the configured
\* directories are).
Resolve(f, path, followLast) == Walk(f, <<>>, path.comps, followLast, 0)

\* stat(2): the node a path names, links followed.
Stat(f, path) ==
    LET r == Resolve(f, path, TRUE)
    IN IF r.st = "found" THEN f[r.p] ELSE NoNode

\* Path::is_file / is_dir / exists
is_file(f, path) == Stat(f, path).kind = "file"
is_dir(f, path) == Stat(f, path).kind = "dir"
exists(f, path) == Stat(f, path).kind # "none"

\* lstat(2): links not followed on the last component.
LStat(f, path) ==
    LET r == Resolve(f, path, FALSE)
    IN IF r.st = "found" THEN f[r.p] ELSE NoNode

\* Mode of a directory that mkdir creates (0777 under the usual umask 022).
NewDirMode == 493

\* mkdir(2)
Mkdir(f, path) ==
    LET r == Resolve(f, path, FALSE)
    IN IF r.st = "missing" THEN [ok |-> TRUE, err |-> "", fs |-> Put(f, r.p, DirNode(NewDirMode))]
       ELSE IF r.st = "found" THEN [ok |-> FALSE, err |-> "EEXIST", fs |-> f]
       ELSE [ok |-> FALSE, err |-> r.st, fs |-> f]

RECURSIVE create_dir_all(_, _)
\* std::fs::create_dir_all: mkdir; on NotFound create the parent first; any
\* other error is forgiven when the path is a directory.
create_dir_all(f, path) ==
    IF path.comps = <<>> THEN [ok |-> is_dir(f, path), fs |-> f]
    ELSE LET m1 == Mkdir(f, path)
         IN IF m1.ok THEN [ok |-> TRUE, fs |-> m1.fs]
            ELSE IF m1.err # "ENOENT" THEN [ok |-> is_dir(f, path), fs |-> f]
            ELSE LET up == create_dir_all(f, parent(path))
                 IN IF ~up.ok THEN up
                    ELSE LET m2 == Mkdir(up.fs, path)
                         IN IF m2.ok THEN [ok |-> TRUE, fs |-> m2.fs]
                            ELSE [ok |-> is_dir(up.fs, path), fs |-> up.fs]

\* std::fs::copy: open(from), open(to, O_WRONLY|O_CREAT|O_TRUNC), copy the
\* bytes, and give a regular file the source's permissions.  Both opens
\* follow symbolic links; copying a file onto itself truncates it.
copy(f, from, to) ==
    LET s == Resolve(f, from, TRUE)
        d == Resolve(f, to, TRUE)
    IN IF s.st # "found" \/ f[s.p].kind # "file" THEN [ok |-> FALSE, fs |-> f]
       ELSE IF d.st = "missing"
       THEN [ok |-> TRUE, fs |-> Put(f, d.p, f[s.p])]
       ELSE IF d.st = "found" /\ f[d.p].kind = "file"
       THEN [ok |-> TRUE,
             fs |-> IF d.p = s.p THEN Put(f, d.p, [f[s.p] EXCEPT !.data = "", !.sym = FALSE])
                    ELSE Put(f, d.p, f[s.p])]
       ELSE [ok |-> FALSE, fs |-> f]

\* std::fs::set_permissions: chmod(2) follows links and keeps the
\* permission bits of the u32 it is given (mode & 07777).
set_permissions(f, path, mode) ==
    LET r == Resolve(f, path, TRUE)
    IN IF r.st = "found"
       THEN [ok |-> TRUE, fs |-> Put(f, r.p, [f[r.p] EXCEPT !.mode = mode.lo % 4096])]
       ELSE [ok |-> FALSE, fs |-> f]

\* A remove_file that leaves links where they are.
remove_file_keeps_links(f, path) ==
    LET r == Resolve(f, path, FALSE)
    IN IF r.st = "found" /\ f[r.p].kind = "file"
       THEN [ok |-> TRUE, fs |-> Del(f, r.p)]
       ELSE [ok |-> FALSE, fs |-> f]

\* std::fs::remove_file: unlink(2) removes a file or a link, never a
\* directory.
remove_file(f, path) ==
    LET r == Resolve(f, path, FALSE)
    IN IF r.st = "found" /\ f[r.p].kind \in {"file", "link"}
       THEN [ok |-> TRUE, fs |-> Del(f, r.p)]
       ELSE [ok |-> FALSE, fs |-> f]

\* std::os::unix::fs::symlink: fails when the link path exists.
symlink(f, original, link) ==
    LET r == Resolve(f, link, FALSE)
    IN IF r.st = "missing" THEN [ok |-> TRUE, fs |-> Put(f, r.p, LinkNode(original))]
       ELSE [ok |-> FALSE, fs |-> f]

\* read_dir: the names in a directory.
read_dir_utf8(f, path) ==
    LET r == Resolve(f, path, TRUE)
    IN {q[Len(q)] : q \in {x \in DOMAIN f :
            Len(x) = Len(r.p) + 1 /\ SubSeq(x, 1, Len(r.p)) = r.p}}

----------------------------------------------------------------------------
(* Rules: serde_json values and their typed form                           *)

JNull == [t |-> "null"]
JBool(b) == [t |-> "bool", b |-> b]
JNum(n) == [t |-> "num", n |-> n]
JStr(s) == [t |-> "str", s |-> s]
JArr(a) == [t |-> "arr", a |-> a]
JObj(o) == [t |-> "obj", o |-> o]

\* obj[key] of serde_json: Null when the key is absent.
Field(j, key) == IF j.t = "obj" /\ key \in DOMAIN j.o THEN j.o[key] ELSE JNull

None == [some |-> FALSE]
Some(x) == [some |-> TRUE, v |-> x]

\* Option<PathBuf> / Option<String>
OptStr(j) ==
    IF j.t = "null" THEN [ok |-> TRUE, v |-> None]
    ELSE IF j.t = "str" THEN [ok |-> TRUE, v |-> Some(j.s)]
    ELSE [ok |-> FALSE, v |-> None]

OptBool(j) ==
    IF j.t = "null" THEN [ok |-> TRUE, v |-> None]
    ELSE IF j.t = "bool" THEN [ok |-> TRUE, v |-> Some(j.b)]
    ELSE [ok |-> FALSE, v |-> None]

\* Option<u32>: a number that is not negative (the numbers of the model are
\* all below 2^32).
OptU32(j) ==
    IF j.t = "null" THEN [ok |-> TRUE, v |-> None]
    ELSE IF j.t = "num" /\ j.n >= 0 THEN [ok |-> TRUE, v |-> Some(j.n)]
    ELSE [ok |-> FALSE, v |-> None]

\* Option<InitScript>
OptInit(j) ==
    IF j.t = "null" THEN [ok |-> TRUE, v |-> None]
    ELSE IF j.t = "obj"
    THEN LET a == OptU32(Field(j, "start"))
             b == OptU32(Field(j, "stop"))
         IN IF a.ok /\ b.ok THEN [ok |-> TRUE, v |-> Some([start |-> a.v, stop |-> b.v])]
            ELSE [ok |-> FALSE, v |-> None]
    ELSE [ok |-> FALSE, v |-> None]

OptPath(o) == IF o.some THEN Some(PathFromStr(o.v)) ELSE None

\* serde_json::from_value::<CargoRootfsRule>: every field optional, unknown
\* keys ignored, a field of the wrong type is an error.
ParseRule(j) ==
    LET d == OptStr(Field(j, "destination"))
        s == OptStr(Field(j, "source"))
        p == OptStr(Field(j, "permissions"))
        y == OptBool(Field(j, "symbolic"))
        r == OptBool(Field(j, "root_crate_symlink"))
        n == OptInit(Field(j, "init"))
    IN [ok |-> j.t = "obj" /\ d.ok /\ s.ok /\ p.ok /\ y.ok /\ r.ok /\ n.ok,
        destination |-> OptPath(d.v), source |-> OptPath(s.v), permissions |-> p.v,
        symbolic |-> y.v, root_crate_symlink |-> r.v, init |-> n.v]

DigitValue(c) ==
    CASE c = "0" -> 0 [] c = "1" -> 1 [] c = "2" -> 2 [] c = "3" -> 3 [] c = "4" -> 4
      [] c = "5" -> 5 [] c = "6" -> 6 [] c = "7" -> 7 [] c = "8" -> 8 [] c = "9" -> 9
      [] OTHER -> 36

\* A u32 is kept as its two 16-bit halves, so that the 32-bit bound of
\* from_str_radix can be computed.
Half == 65536

U32(n) == [hi |-> n \div Half, lo |-> n % Half]

RECURSIVE RadixValue(_, _, _)
\* The digits of s in the radix on top of acc (checked_mul, checked_add):
\* ok is FALSE on an invalid digit or when the value leaves 32 bits.
RadixValue(s, radix, acc) ==
    IF s = <<>> \/ ~acc.ok THEN acc
    ELSE LET d == DigitValue(Head(s))
             lo == acc.v.lo * radix + d
             hi == acc.v.hi * radix + lo \div Half
         IN IF d >= radix \/ hi >= Half THEN [ok |-> FALSE, v |-> U32(0)]
            ELSE RadixValue(Tail(s), radix, [ok |-> TRUE, v |-> [hi |-> hi, lo |-> lo % Half]])

\* A from_str_radix that reads the digits in base ten whatever the radix.
from_str_radix_decimal(s, radix) ==
    LET digits == IF s # <<>> /\ Head(s) = "+" THEN Tail(s) ELSE s
    IN IF digits = <<>> THEN [ok |-> FALSE, v |-> U32(0)]
       ELSE RadixValue(digits, 10, [ok |-> TRUE, v |-> U32(0)])

\* u32::from_str_radix: an optional "+", then at least one digit of the
\* radix, and the value must fit 32 bits.
from_str_radix(s, radix) ==
    LET digits == IF s # <<>> /\ Head(s) = "+" THEN Tail(s) ELSE s
    IN IF digits = <<>> THEN [ok |-> FALSE, v |-> U32(0)]
       ELSE RadixValue(digits, radix, [ok |-> TRUE, v |-> U32(0)])

----------------------------------------------------------------------------
(* CargoRootfs::new and the lookups on the metadata                        *)

\* self.dst: args.dst.unwrap_or("/")
DstOf(a) == IF a.dst.some THEN a.dst.v ELSE PathFromStr(<<"/">>)

\* self.outdir: <target_directory>[/<target>]/release (CARGO_BUILD_TARGET
\* is taken to be unset)
OutdirOf(a, md) ==
    join_name(IF a.target.some THEN join_name(md.target_directory, a.target.v)
             ELSE md.target_directory,
             <<"r", "e", "l", "e", "a", "s", "e">>)

PackageIndex(md, id) ==
    IF \E k \in 1..Len(md.packages) : md.packages[k].id = id
    THEN CHOOSE k \in 1..Len(md.packages) :
            /\ md.packages[k].id = id
            /\ \A j \in 1..(k - 1) : md.packages[j].id # id
    ELSE 0

HasKind(target, kinds) == target.kind \cap kinds # {}

\* targets.iter().find(|target| target.kind.contains(..)): the index of the
\* first target of one of the kinds, 0 when there is none.
find_kind(targets, kinds) ==
    IF \E k \in 1..Len(targets) : HasKind(targets[k], kinds)
    THEN CHOOSE k \in 1..Len(targets) :
            /\ HasKind(targets[k], kinds)
            /\ \A j \in 1..(k - 1) : ~HasKind(targets[j], kinds)
    ELSE 0

RECURSIVE Flatten(_)
Flatten(seqs) == IF seqs = <<>> THEN <<>> ELSE Head(seqs) \o Flatten(Tail(seqs))

\* Metadata::workspace_packages
workspace_packages(md) ==
    LET Member(p) == p.id \in md.workspace_members IN SelectSeq(md.packages, Member)

\* The names of the targets of the workspace's packages that have one of
\* the kinds, package by package.
WorkspaceTargets(md, kinds) ==
    LET ws == workspace_packages(md)
        Wanted(t) == HasKind(t, kinds)
        names(p) == LET ts == SelectSeq(p.targets, Wanted)
                    IN [k \in 1..Len(ts) |-> ts[k].name]
    IN Flatten([k \in 1..Len(ws) |-> names(ws[k])])

\* get_manifest_dir
get_manifest_dir(package) == parent(package.manifest_path)

\* get_source_file: the override directory first, when it has the file.
get_source_file(a, f, package, source) ==
    LET alt == join(join_name(a.altsrc.v, package.name), source)
    IN IF a.altsrc.some /\ exists(f, alt) THEN alt
       ELSE join(get_manifest_dir(package), source)

\* get_destination_file
get_destination_file(a, destination) == join(DstOf(a), strip_prefix_root(destination))

----------------------------------------------------------------------------
(* The program.  todo is the call stack: its head is the call that runs    *)
(* next; a call that returns is removed, a call that calls others puts    *)
(* them in front of what follows it.                                       *)

NoPath == [abs |-> FALSE, comps |-> <<>>]

Frame == [op |-> "", pkg |-> 0, i |-> 0, json |-> JNull, src |-> NoPath, dst |-> NoPath,
          mode |-> None, depth |-> 0, names |-> {}, name |-> <<>>, init |-> None,
          why |-> ""]

Call(op) == [Frame EXCEPT !.op = op]
CallName(op, name) == [Frame EXCEPT !.op = op, !.name = name]
CallPath(op, path, why) == [Frame EXCEPT !.op = op, !.dst = path, !.why = why]
CallCopyTree(src, dst, mode, depth) ==
    [Frame EXCEPT !.op = "recursive_copy", !.src = src, !.dst = dst, !.mode = mode,
                  !.depth = depth]

Top == Head(todo)
Running(op) == status = "running" /\ todo # <<>> /\ Top.op = op

\* The calls frames replace the running one.
Continue(frames) == todo' = frames \o Tail(todo) /\ UNCHANGED <<status, panicAt>>

\* A failure that is reported and passed over: the next call runs.
Panic_passed_over(label) == panicAt' = label /\ todo' = Tail(todo) /\ UNCHANGED status

\* panic!/unwrap/expect: the process ends where it stands.
Panic(label) == status' = "panic" /\ panicAt' = label /\ UNCHANGED todo

Fixed == UNCHANGED <<args, metadata, runs>>

\* main: which installations the arguments select, then the dependencies.
main(a) ==
    (IF a.all_bins_only THEN <<Call("install_bins")>> ELSE <<>>)
    \o [k \in 1..Len(a.bins_only) |-> CallName("install_bin", a.bins_only[k])]
    \o (IF a.lib_only THEN <<Call("install_libs")>> ELSE <<>>)
    \o (IF ~a.all_bins_only /\ a.bins_only = <<>> /\ ~a.lib_only
        THEN <<Call("install_bins"), Call("install_libs")>> ELSE <<>>)
    \o <<Call("install_dependencies")>>

install_bins ==
    /\ Running("install_bins")
    /\ LET names == WorkspaceTargets(metadata, {"bin"})
       IN Continue([k \in 1..Len(names) |-> CallName("install_bin", names[k])])
    /\ UNCHANGED <<fs, hist>> /\ Fixed

UsrBin == PathFromStr(<<"u", "s", "r", "/", "b", "i", "n">>)
UsrLib == PathFromStr(<<"u", "s", "r", "/", "l", "i", "b">>)

install_bin ==
    /\ Running("install_bin")
    /\ LET src == join_name(OutdirOf(args, metadata), Top.name)
           dst == join_name(join(DstOf(args), UsrBin), Top.name)
       IN Continue(<<CallCopyTree(src, dst, Some(U32(493)), 0)>>
                   \o (IF args.command = "Release" THEN <<CallPath("strip", dst, "")>>
                       ELSE <<>>))
    /\ UNCHANGED <<fs, hist>> /\ Fixed

\* The strip program removes the debug symbols of the file it is given.
strip ==
    /\ Running("strip")
    /\ LET r == Resolve(fs, Top.dst, TRUE)
       IN fs' = IF r.st = "found" /\ fs[r.p].kind = "file"
                THEN Put(fs, r.p, [fs[r.p] EXCEPT !.sym = FALSE]) ELSE fs
    /\ Continue(<<>>)
    /\ UNCHANGED hist /\ Fixed

install_libs ==
    /\ Running("install_libs")
    /\ LET names == WorkspaceTargets(metadata, {"dylib", "cdylib"})
       IN Continue([k \in 1..Len(names) |-> CallName("install_lib", names[k])])
    /\ UNCHANGED <<fs, hist>> /\ Fixed

install_lib ==
    /\ Running("install_lib")
    /\ LET filename == <<"l", "i", "b">> \o Top.name \o <<".", "s", "o">>
           src == join_name(OutdirOf(args, metadata), filename)
           dst == join_name(join(DstOf(args), UsrLib), filename)
       IN Continue(<<CallCopyTree(src, dst, Some(U32(493)), 0)>>)
    /\ UNCHANGED <<fs, hist>> /\ Fixed

install_dependencies ==
    /\ Running("install_dependencies")
    /\ LET nodes == metadata.resolve.nodes
       IN Continue([k \in 1..Len(nodes) |->
                       [Frame EXCEPT !.op = "install_dependency", !.name = nodes[k]]])
    /\ UNCHANGED <<fs, hist>> /\ Fixed

install_dependency ==
    /\ Running("install_dependency")
    /\ LET k == PackageIndex(metadata, Top.name)
       IN IF k = 0 THEN Panic("Could not find package")
          ELSE LET rootfs == Field(metadata.packages[k].metadata, "rootfs")
               IN IF rootfs.t = "arr"
                  THEN Continue([i \in 1..Len(rootfs.a) |->
                          [Frame EXCEPT !.op = "rule", !.pkg = k, !.i = i, !.json = rootfs.a[i]]])
                  ELSE Continue(<<>>)
    /\ UNCHANGED <<fs, hist>> /\ Fixed

\* root_crate_symlink_bin: the calls it makes, or the failure it ends in.
root_crate_symlink_bin(package) ==
    LET root == metadata.resolve.root
        rk == IF root.some THEN PackageIndex(metadata, root.v) ELSE 0
        root_package == metadata.packages[rk]
        rb == find_kind(root_package.targets, {"bin"})
        pb == find_kind(package.targets, {"bin"})
        original == [abs |-> FALSE, comps |-> <<root_package.targets[rb].name>>]
        link == join_name(join(DstOf(args), UsrBin), package.targets[pb].name)
    IN IF ~root.some THEN [ok |-> FALSE, why |-> "No root package", calls |-> <<>>]
       ELSE IF rk = 0 THEN [ok |-> FALSE, why |-> "Could not find package", calls |-> <<>>]
       ELSE IF root_package.name = package.name \/ rb = 0 \/ pb = 0
       THEN [ok |-> TRUE, why |-> "", calls |-> <<>>]
       ELSE [ok |-> TRUE, why |-> "",
             calls |-> <<CallPath("remove_file", link, ""),
                         [CallPath("symlink", link, "symlink") EXCEPT !.src = original]>>]

\* One rule of a package: parsed (install_dependency) and interpreted.
interpret_metadata_rule ==
    /\ Running("rule")
    /\ LET package == metadata.packages[Top.pkg]
           rule == ParseRule(Top.json)
           mode == from_str_radix(rule.permissions.v, 8)
           end == [Frame EXCEPT !.op = "rule_end", !.pkg = Top.pkg, !.i = Top.i]
           alias == root_crate_symlink_bin(package)
           link == get_destination_file(args, rule.destination.v)
           src == get_source_file(args, fs, package, rule.source.v)
       IN IF ~rule.ok THEN Panic("Failed to parse rule")
          ELSE IF rule.root_crate_symlink.some /\ rule.root_crate_symlink.v
          THEN IF alias.ok THEN Continue(alias.calls \o <<end>>) ELSE Panic(alias.why)
          ELSE IF ~rule.source.some THEN Panic("Missing src")
          ELSE IF ~rule.destination.some THEN Panic("Missing dst")
          ELSE IF rule.permissions.some /\ ~mode.ok THEN Panic("mode is not an octal number")
          ELSE IF rule.symbolic.some /\ rule.symbolic.v
          THEN Continue((IF has_parent(link)
                         THEN <<CallPath("create_dir_all", parent(link), "create_dir_all")>>
                         ELSE <<>>)
                        \o <<CallPath("remove_file", link, ""),
                             [CallPath("symlink", link, "symlink") EXCEPT !.src = rule.source.v],
                             end>>)
          ELSE Continue(<<CallCopyTree(src, link,
                              IF rule.permissions.some THEN Some(mode.v) ELSE None, 0)>>
                        \o (IF rule.init.some
                            THEN <<[Frame EXCEPT !.op = "init", !.dst = rule.destination.v,
                                                 !.init = rule.init]>>
                            ELSE <<>>)
                        \o <<end>>)
    /\ hist' = [hist EXCEPT !.pre = fs, !.log = Append(@, [pkg |-> Top.pkg, i |-> Top.i])]
    /\ UNCHANGED fs /\ Fixed

\* interpret_metadata_rule returns.
rule_end ==
    /\ Running("rule_end")
    /\ Continue(<<>>)
    /\ UNCHANGED <<fs, hist>> /\ Fixed

EtcRc1 == PathFromStr(<<"e", "t", "c", "/", "r", "c", "1", ".", "d">>)
EtcRc6 == PathFromStr(<<"e", "t", "c", "/", "r", "c", "6", ".", "d">>)
InitD == PathFromStr(<<".", ".", "/", "i", "n", "i", "t", ".", "d">>)

\* Ordering links that lead to init.d/<name> of their own directory.
init_link_beside(rcdir, letter, order, name) ==
    LET original == join_name(PathFromStr(<<"i", "n", "i", "t", ".", "d">>), name)
        link == join_name(rcdir, <<letter>> \o Dec(order) \o name)
    IN <<CallPath("create_dir_all", rcdir, "create_dir_all"),
         CallPath("remove_file", link, ""),
         [CallPath("symlink", link, "symlink") EXCEPT !.src = original]>>

\* The ordering links of a rule with init: the calls of one of them.
init_link(rcdir, letter, order, name) ==
    LET original == join_name(InitD, name)
        link == join_name(rcdir, <<letter>> \o Dec(order) \o name)
    IN <<CallPath("create_dir_all", rcdir, "create_dir_all"),
         CallPath("remove_file", link, ""),
         [CallPath("symlink", link, "symlink") EXCEPT !.src = original]>>

init_links ==
    /\ Running("init")
    /\ LET init == Top.init.v
           name == file_name(Top.dst)
       IN IF ~has_file_name(Top.dst) THEN Panic("file_name")
          ELSE Continue(
                 (IF init.start.some
                  THEN init_link(join(DstOf(args), EtcRc1), "S", init.start.v, name)
                  ELSE <<>>)
                 \o (IF init.stop.some
                     THEN init_link(join(DstOf(args), EtcRc6), "K", init.stop.v, name)
                     ELSE <<>>))
    /\ UNCHANGED <<fs, hist>> /\ Fixed

\* The recursion bound of recursive_copy.
MaxDepth == 20

\* A guard that already stops the call at the bound.
depth_exceeded_at_bound(depth) == depth >= MaxDepth

\* if depth > 20
depth_exceeded(depth) == depth > MaxDepth

recursive_copy ==
    /\ Running("recursive_copy")
    /\ LET src == Top.src
           dst == Top.dst
           mode == Top.mode
           chmod == IF mode.some
                    THEN <<[CallPath("set_permissions", dst, "set_permissions")
                               EXCEPT !.mode = mode]>>
                    ELSE <<>>
       IN IF depth_exceeded(Top.depth) THEN Panic("Recursive copy detected")
          ELSE IF is_file(fs, src)
          THEN Continue(<<CallPath("create_dir_all", parent(dst), "create_dir_all"),
                          [CallPath("copy", dst, "copy") EXCEPT !.src = src]>> \o chmod)
          ELSE IF is_dir(fs, src)
          THEN Continue(<<CallPath("create_dir_all", dst, "create_dir_all")>> \o chmod
                        \o <<[Top EXCEPT !.op = "read_dir"]>>)
          ELSE Panic("Artifact not found")
    /\ UNCHANGED <<fs, hist>> /\ Fixed

\* src.read_dir_utf8(): the listing the loop runs over.
read_dir ==
    /\ Running("read_dir")
    /\ Continue(<<[Top EXCEPT !.op = "for_dir", !.names = read_dir_utf8(fs, Top.src)]>>)
    /\ UNCHANGED <<fs, hist>> /\ Fixed

\* One turn of the loop over the listing, in the order the directory
\* gives its entries (any): a hidden entry is skipped.
for_dir ==
    /\ Running("for_dir")
    /\ Top.names # {}
    /\ \E name \in Top.names :
          LET rest == [Top EXCEPT !.names = @ \ {name}]
          IN IF starts_with_dot(name) THEN Continue(<<rest>>)
             ELSE Continue(<<CallCopyTree(join_name(Top.src, name), join_name(Top.dst, name),
                                          Top.mode, Top.depth + 1), rest>>)
    /\ UNCHANGED <<fs, hist>> /\ Fixed

for_dir_end ==
    /\ Running("for_dir")
    /\ Top.names = {}
    /\ Continue(<<>>)
    /\ UNCHANGED <<fs, hist>> /\ Fixed

\* A call of std::fs that must succeed (unwrap): res is its outcome.
Must(res) ==
    IF res.ok THEN fs' = res.fs /\ Continue(<<>>)
    ELSE Panic(Top.why) /\ UNCHANGED fs

CallCreateDirAll ==
    /\ Running("create_dir_all")
    /\ Must(create_dir_all(fs, Top.dst))
    /\ UNCHANGED hist /\ Fixed

CallCopy ==
    /\ Running("copy")
    /\ Must(copy(fs, Top.src, Top.dst))
    /\ UNCHANGED hist /\ Fixed

CallSetPermissions ==
    /\ Running("set_permissions")
    /\ Must(set_permissions(fs, Top.dst, Top.mode.v))
    /\ UNCHANGED hist /\ Fixed

\* let _ = std::fs::remove_file(&link): the outcome is ignored.
CallRemoveFile ==
    /\ Running("remove_file")
    /\ fs' = remove_file(fs, Top.dst).fs
    /\ Continue(<<>>)
    /\ UNCHANGED hist /\ Fixed

CallSymlink ==
    /\ Running("symlink")
    /\ Must(symlink(fs, Top.src, Top.dst))
    /\ UNCHANGED hist /\ Fixed

\* main returns.
exit ==
    /\ status = "running" /\ todo = <<>>
    /\ status' = "done"
    /\ hist' = IF runs = 1 THEN [hist EXCEPT !.first = fs] ELSE hist
    /\ UNCHANGED <<fs, todo, panicAt>> /\ Fixed

\* The user starts the program again, with the same arguments, on what the
\* last run left.
MaxRuns == 2

rerun ==
    /\ status = "done" /\ runs < MaxRuns
    /\ runs' = runs + 1
    /\ todo' = main(args)
    /\ status' = "running"
    /\ hist' = [hist EXCEPT !.pre = fs, !.log = <<>>]
    /\ UNCHANGED <<args, metadata, fs, panicAt>>

Next ==
    \/ install_bins \/ install_bin \/ strip \/ install_libs \/ install_lib
    \/ install_dependencies \/ install_dependency
    \/ interpret_metadata_rule \/ rule_end \/ init_links
    \/ recursive_copy \/ read_dir \/ for_dir \/ for_dir_end
    \/ CallCreateDirAll \/ CallCopy \/ CallSetPermissions \/ CallRemoveFile \/ CallSymlink
    \/ exit \/ rerun

----------------------------------------------------------------------------
(* The inputs: arguments, packages with their rules, and what is on disk   *)
(* when the program starts.                                                *)

P(s) == PathFromStr(s)

\* The install root /r, the manifest directories /p (root package) and /q
\* (dependency), the override directory /alt and the target directory /t.
Root == P(<<"/", "r">>)
AltDir == P(<<"/", "a", "l", "t">>)
TargetDir == P(<<"/", "t">>)

n_app == <<"a", "p", "p">>
n_dep == <<"d", "e", "p">>
n_d1 == <<"d", "1">>
n_d2 == <<"d", "2">>

ArgsNames == {"default", "lib", "bin", "bins"}

ArgsOf(v) ==
    [command |-> IF v \in {"bin", "default"} THEN "Release" ELSE "Install",
     dst |-> Some(Root),
     altsrc |-> IF v \in {"bins"} THEN Some(AltDir) ELSE None,
     target |-> None,
     all_bins_only |-> v = "bins",
     bins_only |-> IF v = "bin" THEN <<n_app>> ELSE <<>>,
     lib_only |-> v = "lib"]

RootKinds == {"bin", "both", "lib", "virtual"}

AppTargets(kind) ==
    (IF kind \in {"both", "lib", "virtual"}
     THEN <<[name |-> n_app, kind |-> {"cdylib", "rlib"}]>> ELSE <<>>)
    \o (IF kind \in {"bin", "both", "virtual"}
        THEN <<[name |-> n_app, kind |-> {"bin"}]>> ELSE <<>>)

DepTargets(bins) ==
    <<[name |-> n_dep, kind |-> {"lib"}]>>
    \o (IF bins THEN <<[name |-> n_d1, kind |-> {"bin"}], [name |-> n_d2, kind |-> {"bin"}]>>
        ELSE <<>>)

RootfsOf(rules) == IF rules = <<>> THEN JNull ELSE JObj([rootfs |-> JArr(rules)])

Metadata(kind, depBins, appRules, depRules) ==
    [packages |->
        <<[id |-> "app", name |-> n_app,
           manifest_path |-> P(<<"/", "p", "/", "C", "a", "r", "g", "o", ".", "t", "o", "m", "l">>),
           targets |-> AppTargets(kind), metadata |-> RootfsOf(appRules)],
          [id |-> "dep", name |-> n_dep,
           manifest_path |-> P(<<"/", "q", "/", "C", "a", "r", "g", "o", ".", "t", "o", "m", "l">>),
           targets |-> DepTargets(depBins), metadata |-> RootfsOf(depRules)]>>,
     resolve |-> [root |-> IF kind = "virtual" THEN None ELSE Some("app"),
                  nodes |-> <<"app", "dep">>],
     workspace_members |-> {"app"},
     target_directory |-> TargetDir]

Dir == DirNode(493)
File(m, d) == FileNode(m, d, FALSE)
Link(s) == LinkNode(P(s))

\* What is on disk outside the install root.
Sources ==
    ( <<>> :> Dir
   @@ <<<<"p">>>> :> Dir
   @@ <<<<"p">>, <<"g">>>> :> File(384, "p/g")
   @@ <<<<"q">>>> :> Dir
   @@ <<<<"q">>, <<"f">>>> :> File(420, "q/f")
   @@ <<<<"q">>, <<"g">>>> :> File(384, "q/g")
   @@ <<<<"q">>, <<"d">>>> :> Dir
   @@ <<<<"q">>, <<"d">>, <<"a">>>> :> File(420, "q/d/a")
   @@ <<<<"q">>, <<"d">>, <<".", "h">>>> :> File(420, "q/d/.h")
   @@ <<<<"q">>, <<"d">>, <<"s">>>> :> Dir
   @@ <<<<"q">>, <<"d">>, <<"s">>, <<"b">>>> :> File(416, "q/d/s/b")
   @@ <<<<"q">>, <<"d">>, <<"s">>, <<".", "m">>>> :> File(420, "q/d/s/.m")
   @@ <<<<"q">>, <<"d">>, <<".", "k">>>> :> Dir
   @@ <<<<"q">>, <<"d">>, <<".", "k">>, <<"c">>>> :> File(420, "q/d/.k/c")
   @@ <<<<"q">>, <<"e">>>> :> Dir
   @@ <<<<"q">>, <<"e">>, <<"a">>>> :> File(420, "q/e/a")
   @@ <<<<"q">>, <<"e">>, <<"z">>>> :> Link(<<"n", "o">>)
   @@ <<<<"q">>, <<"o">>>> :> Dir
   @@ <<<<"q">>, <<"o">>, <<"l">>>> :> Link(<<".">>)
   @@ <<<<"q">>, <<"w">>>> :> Dir
   @@ <<<<"q">>, <<"w">>, <<"k">>>> :> File(420, "q/w/k")
   @@ <<<<"q">>, <<"w">>, <<"l">>>> :> Link(<<".", ".", "/", "d">>)
   @@ <<<<"a", "l", "t">>>> :> Dir
   @@ <<<<"a", "l", "t">>, n_dep>> :> Dir
   @@ <<<<"a", "l", "t">>, n_dep, <<"f">>>> :> File(420, "alt/dep/f")
   @@ <<<<"t">>>> :> Dir
   @@ <<<<"t">>, <<"r", "e", "l", "e", "a", "s", "e">>>> :> Dir
   @@ <<<<"t">>, <<"r", "e", "l", "e", "a", "s", "e">>, n_app>> :> FileNode(493, "app", TRUE)
   @@ <<<<"t">>, <<"r", "e", "l", "e", "a", "s", "e">>,
        <<"l", "i", "b", "a", "p", "p", ".", "s", "o">>>> :> FileNode(493, "libapp.so", TRUE) )

c_r == <<"r">>
c_etc == <<"e", "t", "c">>
c_x == <<"x">>
c_rc1 == <<"r", "c", "1", ".", "d">>
c_rc6 == <<"r", "c", "6", ".", "d">>
c_S20svc == <<"S", "2", "0", "s", "v", "c">>
c_K80svc == <<"K", "8", "0", "s", "v", "c">>
c_usr == <<"u", "s", "r">>
c_bin == <<"b", "i", "n">>

\* The places where the presets put something old.
StalePlaces ==
    {<<c_r, c_etc, c_x>>, <<c_r, c_etc, c_rc1, c_S20svc>>, <<c_r, c_etc, c_rc6, c_K80svc>>,
     <<c_r, c_usr, c_bin, n_d1>>}

Presets == {"empty", "files", "links", "dirs"}

\* The install root when the program starts: empty, or with a regular
\* file, a link or a directory at each of the stale places.
InstallRoot(preset) ==
    LET dirs == {<<c_r>>} \cup
                (IF preset = "empty" THEN {}
                 ELSE {<<c_r, c_etc>>, <<c_r, c_etc, c_rc1>>, <<c_r, c_etc, c_rc6>>,
                       <<c_r, c_usr>>, <<c_r, c_usr, c_bin>>})
        old == IF preset = "files" THEN File(420, "old")
               ELSE IF preset = "links" THEN Link(<<"o", "l", "d">>)
               ELSE Dir
        inside == IF preset = "dirs" THEN {Append(q, <<"o">>) : q \in StalePlaces} ELSE {}
        stale == IF preset = "empty" THEN {} ELSE StalePlaces
    IN [q \in dirs \cup stale \cup inside |->
           IF q \in dirs THEN Dir ELSE IF q \in stale THEN old ELSE File(420, "old")]

CopyRule(src, dst) == JObj([source |-> JStr(src), destination |-> JStr(dst)])
With(rule, key, val) == JObj((key :> val) @@ rule.o)

s_etcx == <<"/", "e", "t", "c", "/", "x">>
s_svc == <<"/", "e", "t", "c", "/", "i", "n", "i", "t", ".", "d", "/", "s", "v", "c">>

\* The rules the scenarios are made of.
Pool ==
    << With(CopyRule(<<"f">>, s_etcx), "permissions", JStr(<<"7", "5", "5">>)),
       CopyRule(<<"g">>, s_etcx),
       With(CopyRule(<<"y">>, s_etcx), "symbolic", JBool(TRUE)),
       With(CopyRule(<<"/", "q", "/", "g">>, s_etcx), "symbolic", JBool(TRUE)),
       With(CopyRule(<<"d">>, s_etcx), "permissions", JStr(<<"7", "5", "0">>)),
       CopyRule(<<"f">>, <<".", ".", "/", "o">>),
       CopyRule(<<"e">>, <<"v">>),
       With(CopyRule(<<"f">>, s_etcx), "symbolic", JStr(<<"y", "e", "s">>)),
       JObj([destination |-> JStr(s_etcx)]),
       JObj([source |-> JStr(<<"f">>)]),
       With(CopyRule(<<"f">>, s_etcx), "permissions", JStr(<<"7", "8">>)),
       CopyRule(<<"n", "o">>, s_etcx) >>

\* The one rule the root package may carry.
AppRule == CopyRule(<<"g">>, s_etcx)

\* Rules with init, on a service script.
InitPool ==
    LET rule == With(CopyRule(<<"f">>, s_svc), "permissions", JStr(<<"7", "5", "5">>))
    IN << With(rule, "init", JObj([start |-> JNum(20), stop |-> JNum(80)])),
          With(rule, "init", JObj([start |-> JNum(20)])),
          With(rule, "init", JObj([stop |-> JNum(80)])),
          With(rule, "init", JObj(<<>>)),
          With(CopyRule(<<"d">>, <<"/", "e", "t", "c", "/", "i", "n", "i", "t", ".", "d", "/", ".", ".">>),
               "init", JObj([start |-> JNum(1)])),
          Pool[3],
          Pool[4] >>

\* Rules with root_crate_symlink, alone and with fields it does not read.
AliasPool ==
    << JObj([root_crate_symlink |-> JBool(TRUE)]),
       JObj([root_crate_symlink |-> JBool(TRUE), destination |-> JStr(s_etcx),
             permissions |-> JStr(<<"9">>), init |-> JObj([start |-> JNum(1)])]) >>

MaxRules == 2

Start(a, md, f0, family, preset) ==
    /\ args = a
    /\ metadata = md
    /\ fs = f0
    /\ todo = main(a)
    /\ status = "running"
    /\ panicAt = ""
    /\ runs = 1
    /\ hist = [pre |-> f0, log |-> <<>>, first |-> f0, family |-> family, preset |-> preset]

\* Sequences of rules from the pool on the dependency, with or without a
\* rule on the root package, on an empty install root.
InitRules ==
    \E n \in 0..MaxRules : \E pick \in [1..n -> 1..Len(Pool)] : \E app \in BOOLEAN :
        Start(ArgsOf("lib"),
              Metadata("bin", FALSE, IF app THEN <<AppRule>> ELSE <<>>,
                       [k \in 1..n |-> Pool[pick[k]]]),
              Sources @@ InstallRoot("empty"), "rules", "empty")

\* One rule with init, or one link rule, on every preset of the root.
InitStale ==
    \E k \in 1..Len(InitPool) : \E preset \in Presets :
        Start(ArgsOf("lib"), Metadata("bin", FALSE, <<>>, <<InitPool[k]>>),
              Sources @@ InstallRoot(preset), "stale", preset)

\* One root_crate_symlink rule, on the root package or on the dependency,
\* under every selection of main and every shape of the workspace.
InitAlias ==
    \E v \in ArgsNames : \E kind \in RootKinds : \E depBins \in BOOLEAN :
    \E onRoot \in BOOLEAN : \E k \in 1..Len(AliasPool) : \E preset \in {"empty", "links", "dirs"} :
        Start(ArgsOf(v),
              Metadata(kind, depBins, IF onRoot THEN <<AliasPool[k]>> ELSE <<>>,
                       IF onRoot THEN <<>> ELSE <<AliasPool[k]>>),
              Sources @@ InstallRoot(preset), "alias", preset)

MaxPermLen == 5
PermChars == {"0", "7", "8"}

\* The permission strings tried: every string of the characters up to
\* the length, and some of interest.
PermStrings ==
    UNION {[1..n -> PermChars] : n \in 0..MaxPermLen}
    \cup {<<"7", "5", "5">>, <<"6", "4", "4">>, <<"+", "7", "5", "5">>, <<"+">>,
          <<"1", "0", "0", "7", "5", "5">>,
          <<"3", "7", "7", "7", "7", "7", "7", "7", "7", "7", "7">>,
          <<"4", "0", "0", "0", "0", "0", "0", "0", "0", "0", "0">>}

\* One copy rule with permissions, of a file or of a directory.
InitPerms ==
    \E perm \in PermStrings : \E src \in {<<"f">>, <<"g">>, <<"d">>} :
        Start(ArgsOf("lib"),
              Metadata("bin", FALSE, <<>>,
                       <<With(CopyRule(src, s_etcx), "permissions", JStr(perm))>>),
              Sources @@ InstallRoot("empty"), "perms", "empty")

\* A chain of directories /q/c/c/.../c, MaxChain deep, with a file z in the
\* last one.
MaxChain == 22

Chain ==
    LET dir(k) == <<<<"q">>>> \o [j \in 1..k |-> <<"c">>]
    IN [q \in {dir(k) : k \in 1..MaxChain} \cup {Append(dir(MaxChain), <<"z">>)} |->
           IF q = Append(dir(MaxChain), <<"z">>) THEN File(420, "z") ELSE Dir]

RECURSIVE ChainSource(_)
\* "c/c/.../c", k deep
ChainSource(k) == IF k = 1 THEN <<"c">> ELSE <<"c", "/">> \o ChainSource(k - 1)

\* One copy rule of a tree: the trees of the sources, and the chain from
\* each of its levels.
InitTrees ==
    \/ \E src \in {<<"d">>, <<"e">>, <<"o">>, <<"w">>} : \E dst \in {s_etcx, <<"v">>} :
       \E perm \in BOOLEAN : \E preset \in {"empty", "dirs", "links"} :
          Start(ArgsOf("lib"),
                Metadata("bin", FALSE, <<>>,
                         <<IF perm THEN With(CopyRule(src, dst), "permissions", JStr(<<"7", "0", "0">>))
                           ELSE CopyRule(src, dst)>>),
                Sources @@ InstallRoot(preset), "trees", preset)
    \/ \E k \in 1..MaxChain :
          Start(ArgsOf("lib"), Metadata("bin", FALSE, <<>>, <<CopyRule(ChainSource(k), <<"v">>)>>),
                Sources @@ Chain @@ InstallRoot("empty"), "chain", "empty")

Init == InitRules \/ InitStale \/ InitAlias \/ InitPerms \/ InitTrees

Spec == Init /\ [][Next]_vars

----------------------------------------------------------------------------
(* What the properties speak of                                            *)

\* The rule that was started last, as the program parsed it.
RuleJson(e) == Field(metadata.packages[e.pkg].metadata, "rootfs").a[e.i]
RuleAt(k) == ParseRule(RuleJson(hist.log[k]))
LastRule == RuleAt(Len(hist.log))
LastPackage == metadata.packages[hist.log[Len(hist.log)].pkg]

IsAlias(r) == r.root_crate_symlink.some /\ r.root_crate_symlink.v
IsSymbolic(r) == ~IsAlias(r) /\ r.symbolic.some /\ r.symbolic.v
IsCopy(r) == ~IsAlias(r) /\ ~IsSymbolic(r)
HasPaths(r) == r.ok /\ r.source.some /\ r.destination.some

\* interpret_metadata_rule has done all it does for the last rule.
AtRuleEnd == status = "running" /\ todo # <<>> /\ Top.op = "rule_end"

\* The run has ended in a failure of the call named op.
FailedIn(op) == status = "panic" /\ todo # <<>> /\ Top.op = op

LastDst == get_destination_file(args, LastRule.destination.v)
LastSrc == get_source_file(args, hist.pre, LastPackage, LastRule.source.v)

UnderRoot(q) == Len(q) >= 1 /\ q[1] = c_r
InstallRootOf(f) == [q \in {x \in DOMAIN f : UnderRoot(x)} |-> f[q]]

\* The nodes that differ between two filesystems.
Changed(f, g) == {q \in (DOMAIN f) \cup (DOMAIN g) : Lookup(f, q) # Lookup(g, q)}

----------------------------------------------------------------------------
(* C1 *)

\* C1 (as claimed): a second run of the rules of copy and link kind on what
\* the first run made of an empty install root does not fail, and leaves the
\* install root as the first run left it.
C1_Idempotent ==
    (hist.family = "rules" /\ runs = 2) =>
        /\ status # "panic"
        /\ status = "done" => InstallRootOf(fs) = InstallRootOf(hist.first)

----------------------------------------------------------------------------
(* C2 *)

\* C2 (as claimed): whatever is at the destination of a link rule, the rule
\* does not fail on creating the link, and when it ends the destination is a
\* link whose text is the rule's source.
C2_AnyEntryReplaced ==
    (hist.log # <<>> /\ HasPaths(LastRule) /\ IsSymbolic(LastRule)) =>
        /\ ~FailedIn("symlink")
        /\ AtRuleEnd => LStat(fs, LastDst) = LinkNode(LastRule.source.v)

\* C2 (amended): a regular file or a link at the destination of a link rule
\* is replaced: when the rule ends the destination is a link whose text is
\* the rule's source; the creation of the link fails only when a directory is
\* at the destination, and that directory is left as it was.
C2_FileOrLinkReplaced ==
    (hist.log # <<>> /\ HasPaths(LastRule) /\ IsSymbolic(LastRule)) =>
        /\ FailedIn("symlink") =>
              /\ LStat(fs, LastDst).kind = "dir"
              /\ LStat(hist.pre, LastDst).kind = "dir"
        /\ AtRuleEnd => LStat(fs, LastDst) = LinkNode(LastRule.source.v)
        /\ LStat(hist.pre, LastDst).kind \in {"file", "link"} => status # "panic"

\* A link rule has replaced a link with another text.
C2_Witness ==
    /\ hist.log # <<>> /\ HasPaths(LastRule) /\ IsSymbolic(LastRule) /\ AtRuleEnd
    /\ LStat(hist.pre, LastDst).kind = "link"
    /\ LStat(hist.pre, LastDst).text # LastRule.source.v
    /\ LStat(fs, LastDst) = LinkNode(LastRule.source.v)

----------------------------------------------------------------------------
(* C3 *)

PermDigits(s) == IF s # <<>> /\ Head(s) = "+" THEN Tail(s) ELSE s

RECURSIVE OctalOf(_)
\* The number a string of octal digits writes.
OctalOf(d) == IF d = <<>> THEN 0 ELSE OctalOf(SubSeq(d, 1, Len(d) - 1)) * 8 + DigitValue(d[Len(d)])

\* The last four digits, and the ones before them.
LowDigits(d) == SubSeq(d, IF Len(d) > 4 THEN Len(d) - 3 ELSE 1, Len(d))
HighDigits(d) == SubSeq(d, 1, IF Len(d) > 4 THEN Len(d) - 4 ELSE 0)

\* The regular files the last rule wrote.
WrittenFiles == {q \in Changed(hist.pre, fs) : Lookup(fs, q).kind = "file"}

CopyWithPermissionsEnded ==
    /\ hist.log # <<>> /\ HasPaths(LastRule) /\ IsCopy(LastRule) /\ AtRuleEnd
    /\ LastRule.permissions.some

\* C3 (as claimed): after a copy rule with the permission string P, every
\* file the rule wrote has the mode P writes in octal.
C3_ModeExactlyP ==
    CopyWithPermissionsEnded =>
        \A q \in WrittenFiles :
            /\ fs[q].mode = OctalOf(LowDigits(PermDigits(LastRule.permissions.v)))
            /\ \A k \in DOMAIN HighDigits(PermDigits(LastRule.permissions.v)) :
                  HighDigits(PermDigits(LastRule.permissions.v))[k] = "0"

\* C3 (amended): after a copy rule with the permission string P, every file
\* the rule wrote has the permission bits of P, that is P modulo 010000 (the
\* last four octal digits of P): exactly P when P is at most 07777, and 0755
\* for "755" whatever the mode of the source.
C3_ModeIsPermissionBitsOfP ==
    CopyWithPermissionsEnded =>
        \A q \in WrittenFiles :
            fs[q].mode = OctalOf(LowDigits(PermDigits(LastRule.permissions.v)))

\* "755" on a source of mode 0600: the destination has mode 0755.
C3_Witness ==
    /\ CopyWithPermissionsEnded
    /\ LastRule.permissions.v = <<"7", "5", "5">>
    /\ Stat(hist.pre, LastSrc).kind = "file" /\ Stat(hist.pre, LastSrc).mode = 384
    /\ WrittenFiles # {}
    /\ Stat(fs, LastDst).mode = 493

----------------------------------------------------------------------------
(* C4 *)

IsPrefix(a, b) == Len(a) <= Len(b) /\ SubSeq(b, 1, Len(a)) = a

\* The paths below the directory that path names in f, relative to it.
Below(f, path) ==
    LET r == Resolve(f, path, TRUE)
    IN IF r.st # "found" THEN {}
       ELSE {SubSeq(q, Len(r.p) + 1, Len(q)) : q \in {x \in DOMAIN f : IsPrefix(r.p, x)}}

\* The relative paths to compare: those below the source, those below the
\* destination, and those below what a link of the source leads to.
RelPaths(f, src, dst) ==
    LET direct == Below(f, src) \cup Below(f, dst)
        links  == {q \in Below(f, src) : LStat(f, [src EXCEPT !.comps = @ \o q]).kind = "link"}
    IN direct \cup UNION {{q \o t : t \in Below(f, [src EXCEPT !.comps = @ \o q])} : q \in links}

HasEntry(f, base, q) == Stat(f, [base EXCEPT !.comps = @ \o q]).kind \in {"file", "dir"}
Hidden(q) == \E k \in DOMAIN q : q[k] # <<>> /\ q[k][1] = "."

MirrorsVisible(f, src, dst) ==
    \A q \in RelPaths(f, src, dst) :
        HasEntry(f, dst, q) <=> (HasEntry(f, src, q) /\ ~Hidden(q))

DirectoryCopyEnded ==
    /\ hist.log # <<>> /\ HasPaths(LastRule) /\ IsCopy(LastRule) /\ AtRuleEnd
    /\ is_dir(hist.pre, LastSrc)

\* C4 (as claimed): after the copy of a directory has succeeded, the
\* destination has a file or directory at a relative path exactly when the
\* source has one there and no component of the path begins with a dot.
C4_DestinationMirrorsSource ==
    DirectoryCopyEnded => MirrorsVisible(fs, LastSrc, LastDst)

\* C4 (amended): after the copy of a directory to a destination where nothing
\* was before has succeeded, the destination has a file or directory at a
\* relative path exactly when the source has one there and no component of
\* the path begins with a dot; a destination that was there before keeps
\* what it had besides.
C4_FreshDestinationMirrorsSource ==
    DirectoryCopyEnded =>
        /\ LStat(hist.pre, LastDst).kind = "none" => MirrorsVisible(fs, LastSrc, LastDst)
        /\ \A q \in RelPaths(fs, LastSrc, LastDst) :
              /\ HasEntry(fs, LastSrc, q) /\ ~Hidden(q) => HasEntry(fs, LastDst, q)
              /\ HasEntry(fs, LastDst, q) =>
                    \/ HasEntry(fs, LastSrc, q) /\ ~Hidden(q)
                    \/ HasEntry(hist.pre, LastDst, q)

\* A tree with hidden entries at two levels has been copied to a fresh
\* destination: s/b is there, .h, s/.m and .k/c are not.
C4_Witness ==
    /\ DirectoryCopyEnded
    /\ LStat(hist.pre, LastDst).kind = "none"
    /\ HasEntry(fs, LastSrc, <<<<".", "k">>, <<"c">>>>)
    /\ HasEntry(fs, LastSrc, <<<<"s">>, <<".", "m">>>>)
    /\ HasEntry(fs, LastDst, <<<<"s">>, <<"b">>>>)
    /\ ~HasEntry(fs, LastDst, <<<<".", "k">>, <<"c">>>>)
    /\ ~HasEntry(fs, LastDst, <<<<"s">>, <<".", "m">>>>)

----------------------------------------------------------------------------
(* C5 *)

\* C5: a call of recursive_copy at depth 21 ends the run with "Recursive copy
\* detected" and a call at depth 20 or less never does, so that no call is
\* ever made at a depth beyond 21.
C5_DepthGuard ==
    [][ /\ Running("recursive_copy") /\ Top.depth >= 21
            => status' = "panic" /\ panicAt' = "Recursive copy detected"
        /\ Running("recursive_copy") /\ Top.depth <= 20
            => panicAt' # "Recursive copy detected"
        /\ ~Running("recursive_copy") => panicAt' # "Recursive copy detected"
        /\ \A k \in DOMAIN todo' : todo'[k].op = "recursive_copy" => todo'[k].depth <= 21
      ]_vars

\* The guard has stopped a copy of a tree without cycles, 21 levels down.
C5_Witness ==
    /\ panicAt = "Recursive copy detected"
    /\ hist.family = "chain"
    /\ Top.op = "recursive_copy" /\ Top.depth = 21

----------------------------------------------------------------------------
(* C6 *)

\* C6: a failure ends the run where it happens: the failing step changes
\* nothing on disk, and from then on no rule is started and neither the disk
\* nor anything else changes, so that what earlier steps wrote stays.
C6_FailFast ==
    [][ /\ (status = "panic" \/ panicAt # "") => UNCHANGED vars
        /\ (status' = "panic" \/ panicAt' # "") =>
              /\ status' = "panic" /\ panicAt' # ""
              /\ fs' = fs /\ todo' = todo
      ]_vars

\* A rule has failed half way: an earlier rule's file and a part of the
\* failing rule's tree are on disk, and a later rule is still to come.
C6_Witness ==
    /\ status = "panic" /\ panicAt # ""
    /\ Len(hist.log) >= 2
    /\ fs # hist.pre
    /\ Changed(hist.pre, Sources @@ InstallRoot(hist.preset)) # {}
    /\ \E k \in DOMAIN todo : todo[k].op = "rule"

----------------------------------------------------------------------------
(* C7 *)

InitRuleStarted ==
    /\ hist.log # <<>> /\ HasPaths(LastRule) /\ IsCopy(LastRule)
    /\ LastRule.init.some

StartLink == join_name(join(DstOf(args), EtcRc1),
                       <<"S">> \o Dec(LastRule.init.v.start.v) \o file_name(LastDst))
StopLink == join_name(join(DstOf(args), EtcRc6),
                      <<"K">> \o Dec(LastRule.init.v.stop.v) \o file_name(LastDst))
ScriptLink == LinkNode(join_name(PathFromStr(<<".", ".", "/", "i", "n", "i", "t", ".", "d">>),
                                 file_name(LastDst)))

\* Nothing at or below the directory dir of /r/etc differs between f and g.
Untouched(f, g, dir) == \A q \in Changed(f, g) : ~IsPrefix(<<c_r, c_etc, dir>>, q)

\* When the rule ends: the start link is there exactly when start is given,
\* the stop link exactly when stop is given, each without regard to the other.
InitLinksAsGiven ==
    (InitRuleStarted /\ AtRuleEnd) =>
        /\ IF LastRule.init.v.start.some
           THEN LStat(fs, StartLink) = ScriptLink
           ELSE Untouched(hist.pre, fs, c_rc1)
        /\ IF LastRule.init.v.stop.some
           THEN LStat(fs, StopLink) = ScriptLink
           ELSE Untouched(hist.pre, fs, c_rc6)

\* C7 (as claimed): a copy rule with init makes the link S<start><N> in
\* etc/rc1.d exactly when start is given and the link K<stop><N> in etc/rc6.d
\* exactly when stop is given, both to ../init.d/<N>, and whatever was at a
\* link's path is replaced: making the link does not fail.
C7_AnyStaleEntryReplaced ==
    /\ InitLinksAsGiven
    /\ InitRuleStarted => ~FailedIn("symlink")

\* C7 (amended): a copy rule with init makes the link S<start><N> in
\* etc/rc1.d exactly when start is given and the link K<stop><N> in etc/rc6.d
\* exactly when stop is given, both to ../init.d/<N>; a regular file or a
\* link that was at a link's path is replaced, and making the link fails
\* only when a directory is at its path.
C7_StaleFileOrLinkReplaced ==
    /\ InitLinksAsGiven
    /\ (InitRuleStarted /\ FailedIn("symlink")) =>
          /\ LStat(fs, Top.dst).kind = "dir"
          /\ LStat(hist.pre, Top.dst).kind = "dir"

\* start 20 alone, on a root where both link paths held old links: S20svc
\* leads to ../init.d/svc now and K80svc is the old link still.
C7_Witness ==
    /\ InitRuleStarted /\ AtRuleEnd
    /\ LastRule.init.v.start.some /\ LastRule.init.v.start.v = 20
    /\ ~LastRule.init.v.stop.some
    /\ hist.preset = "links"
    /\ LStat(hist.pre, StartLink).kind = "link"
    /\ LStat(hist.pre, StartLink) # ScriptLink
    /\ fs[<<c_r, c_etc, c_rc1, c_S20svc>>] = ScriptLink
    /\ fs[<<c_r, c_etc, c_rc6, c_K80svc>>] = hist.pre[<<c_r, c_etc, c_rc6, c_K80svc>>]

----------------------------------------------------------------------------
(* C8 *)

BinTargets(package) == SelectSeq(package.targets, LAMBDA t : HasKind(t, {"bin"}))
RootPackage == metadata.packages[PackageIndex(metadata, metadata.resolve.root.v)]
AliasLink == join_name(join(DstOf(args), UsrBin), BinTargets(LastPackage)[1].name)
AliasText == [abs |-> FALSE, comps |-> <<BinTargets(RootPackage)[1].name>>]

\* C8 (as claimed): in a workspace with a root package, on an empty install
\* root, a root_crate_symlink rule of a package P does not fail; it changes
\* nothing when P is the root package or the root package has no binary, and
\* otherwise, when P has a binary, it makes the one link
\* usr/bin/<first binary of P> to the name of the root package's first binary
\* and changes nothing else.
C8_RootCrateAlias ==
    (/\ hist.family = "alias" /\ hist.preset = "empty"
     /\ metadata.resolve.root.some
     /\ hist.log # <<>> /\ LastRule.ok /\ IsAlias(LastRule)) =>
        /\ status # "panic"
        /\ AtRuleEnd =>
              IF LastPackage.name = RootPackage.name \/ BinTargets(RootPackage) = <<>>
              THEN fs = hist.pre
              ELSE BinTargets(LastPackage) # <<>> =>
                      /\ LStat(fs, AliasLink) = LinkNode(AliasText)
                      /\ Changed(hist.pre, fs) = {Resolve(fs, AliasLink, FALSE).p}

----------------------------------------------------------------------------
(* C9 *)

DstAt(k) == get_destination_file(args, RuleAt(k).destination.v)

\* C9 (as claimed): when a rule of copy or link kind ends and an earlier rule
\* of the run had the same destination, the destination is what the later
\* rule alone makes there: a link with the rule's source as text, or a
\* regular file with the contents of the rule's source file.
C9_LastWriterWins ==
    (/\ hist.family = "rules" /\ runs = 1
     /\ AtRuleEnd /\ HasPaths(LastRule)
     /\ \E j \in 1..(Len(hist.log) - 1) : HasPaths(RuleAt(j)) /\ DstAt(j) = LastDst) =>
        IF IsSymbolic(LastRule)
        THEN LStat(fs, LastDst) = LinkNode(LastRule.source.v)
        ELSE is_file(hist.pre, LastSrc) =>
                /\ LStat(fs, LastDst).kind = "file"
                /\ LStat(fs, LastDst).data = Stat(hist.pre, LastSrc).data

----------------------------------------------------------------------------
(* C10 *)

\* No rule started so far has a ".." in its destination.
PlainDestinations ==
    \A k \in 1..Len(hist.log) :
        RuleAt(k).ok /\ RuleAt(k).destination.some =>
            \A j \in DOMAIN RuleAt(k).destination.v.comps :
                RuleAt(k).destination.v.comps[j] # DotDot

\* C10 (as claimed): in a run on an empty install root, no step of a rule
\* creates, changes or removes anything outside the install root, a copy
\* to a destination that an earlier rule made a link included.
C10_Confined ==
    [][ (hist.preset = "empty" /\ runs = 1 /\ PlainDestinations) =>
            \A q \in Changed(fs, fs') : UnderRoot(q) ]_vars

=============================================================================
